---- MODULE Spec2Model ----
(***************************************************************************)
(* Traffic data visualizer (src/main.py): the per-file aggregation pass    *)
(* process_csv_data, the chart tally and scaling of HistogramApp, and the  *)
(* session loop MultiCSVProcessor.handle_user_interaction.                 *)
(*                                                                         *)
(* A text is a sequence of one-character strings.  A CSV row is a function *)
(* from column names to texts, as csv.DictReader yields it: a column that  *)
(* the header lacks is outside the row's DOMAIN, a field that a short row  *)
(* lacks holds NoneText (DictReader's restval None).                       *)
(***************************************************************************)
EXTENDS Integers, Sequences, FiniteSets, TLC

VARIABLES
    dir,              \* working directory: file name -> [present, rows]
    pc,               \* position in handle_user_interaction / process_csv_data
    file_path,        \* the file name validate_date_input returned
    current_data,     \* MultiCSVProcessor.current_data
    i,                \* number of rows the csv reader has yielded so far
    totals,           \* process_csv_data: totals
    hanley_counts_per_hour, \* process_csv_data: dict, as a list of [hour, count] in insertion order
    bicycle_hours,    \* process_csv_data: set of hour keys
    rain_hours,       \* process_csv_data: set of hour keys
    last_row,         \* what the loop body did with the row just read
    exc,              \* exception in flight out of process_csv_data / HistogramApp
    peak_hours,       \* process_csv_data: peak_hours
    analysis_report,  \* the dictionary process_csv_data returned, <<>> while there is none
    results_txt,      \* content of results.txt
    hourly_counts,    \* HistogramApp.hourly_counts
    bars,             \* rectangles draw_histogram created, in draw order
    console,          \* the last message printed to the user
    answer,           \* the answer read at this iteration's "different date" prompt
    returned          \* history: per file, the dictionary the last reported call returned,
                      \* and whether another file has been processed since

vars == <<dir, pc, file_path, current_data, i, totals, hanley_counts_per_hour,
          bicycle_hours, rain_hours, last_row, exc, peak_hours, analysis_report, results_txt,
          hourly_counts, bars, console, answer, returned>>

----------------------------------------------------------------------------
(* Bounds of the model *)

\* longest file (number of data rows) in the working directory
MaxRows == 3
\* the longest file of a directory that holds two files
MaxSessionRows == 2

----------------------------------------------------------------------------
(* Texts *)

NoneText == <<"<None>">>

ELM == <<"E", "l", "m", " ", "A", "v", "e", "n", "u", "e", "/", "R", "a", "b", "b", "i", "t", " ", "R", "o", "a", "d">>
HANLEY == <<"H", "a", "n", "l", "e", "y", " ", "H", "i", "g", "h", "w", "a", "y", "/", "W", "e", "s", "t", "w", "a", "y">>
PaddedElm == <<" ">> \o ELM
OtherJunction == <<"O", "a", "k", " ", "L", "a", "n", "e">>
Truck == <<"T", "r", "u", "c", "k">>
Bicycle == <<"B", "i", "c", "y", "c", "l", "e">>
Motorcycle == <<"M", "o", "t", "o", "r", "c", "y", "c", "l", "e">>
Scooter == <<"S", "c", "o", "o", "t", "e", "r">>
Buss == <<"B", "u", "s", "s">>
Car == <<"C", "a", "r">>
TrueText == <<"T", "r", "u", "e">>
FalseText == <<"f", "a", "l", "s", "e">>
LowerTrue == <<"t", "r", "u", "e">>
LowerRain == <<"r", "a", "i", "n">>
LightRain == <<"L", "i", "g", "h", "t", " ", "R", "a", "i", "n">>
Dry == <<"D", "r", "y">>
North == <<"N">>
South == <<"S">>
BetweenText == <<"B", "e", "t", "w", "e", "e", "n", " ">>
AndText == <<":", "0", "0", " ", "a", "n", "d", " ">>
EndText == <<":", "0", "0">>
DefaultTime == <<"0", "0", ":", "0", "0">>

Digits == <<"0", "1", "2", "3", "4", "5", "6", "7", "8", "9">>
UpperCase == <<"A", "B", "C", "D", "E", "F", "G", "H", "I", "J", "K", "L", "M", "N", "O", "P", "Q", "R", "S", "T", "U", "V", "W", "X", "Y", "Z">>
LowerCase == <<"a", "b", "c", "d", "e", "f", "g", "h", "i", "j", "k", "l", "m", "n", "o", "p", "q", "r", "s", "t", "u", "v", "w", "x", "y", "z">>

IsDigit(c) == \E k \in DOMAIN Digits : Digits[k] = c
DigitVal(c) == (CHOOSE k \in DOMAIN Digits : Digits[k] = c) - 1

\* str.lower()
LowerChar(c) == IF \E k \in DOMAIN UpperCase : UpperCase[k] = c
                THEN LowerCase[CHOOSE k \in DOMAIN UpperCase : UpperCase[k] = c]
                ELSE c
Lower(s) == [k \in DOMAIN s |-> LowerChar(s[k])]

\* str.strip()
RECURSIVE LStrip(_)
LStrip(s) == IF s # <<>> /\ Head(s) = " " THEN LStrip(Tail(s)) ELSE s
RECURSIVE RStrip(_)
RStrip(s) == IF s # <<>> /\ s[Len(s)] = " " THEN RStrip(SubSeq(s, 1, Len(s) - 1)) ELSE s
Strip(s) == RStrip(LStrip(s))

\* sub in s
Contains(sub, s) == \E k \in 0..(Len(s) - Len(sub)) : SubSeq(s, k + 1, k + Len(sub)) = sub

\* s.split(':')[0]
SplitFirst(s) == LET colons == {k \in DOMAIN s : s[k] = ":"}
                 IN IF colons = {} THEN s
                    ELSE SubSeq(s, 1, (CHOOSE k \in colons : \A m \in colons : k <= m) - 1)

\* int(text): surrounding blanks and one sign are accepted, then digits only
RECURSIVE DigitsValue(_)
DigitsValue(s) == IF s = <<>> THEN 0 ELSE 10 * DigitsValue(SubSeq(s, 1, Len(s) - 1)) + DigitVal(s[Len(s)])
Unsigned(s) == IF s # <<>> /\ Head(s) \in {"+", "-"} THEN Tail(s) ELSE s
IntOk(s) == LET u == Unsigned(Strip(s)) IN u # <<>> /\ \A k \in DOMAIN u : IsDigit(u[k])
IntVal(s) == LET t == Strip(s)
             IN IF t # <<>> /\ Head(t) = "-" THEN 0 - DigitsValue(Unsigned(t)) ELSE DigitsValue(Unsigned(t))

\* str(n), as f"{n}" writes an integer: no padding
RECURSIVE NatText(_)
NatText(n) == IF n < 10 THEN <<Digits[n + 1]>> ELSE NatText(n \div 10) \o <<Digits[(n % 10) + 1]>>
IntText(n) == IF n < 0 THEN <<"-">> \o NatText(0 - n) ELSE NatText(n)

\* round(num / den) for num >= 0, den > 0: to the nearest integer, halves to even
Round(num, den) == LET q == num \div den
                       r == num % den
                   IN IF 2 * r < den THEN q
                      ELSE IF 2 * r > den THEN q + 1
                      ELSE IF q % 2 = 0 THEN q ELSE q + 1

----------------------------------------------------------------------------
(* CSV rows *)

Columns == {"JunctionName", "travel_Direction_in", "travel_Direction_out", "VehicleSpeed",
            "VehicleType", "elctricHybrid", "Weather_Conditions", "JunctionSpeedLimit", "timeOfDay"}

Row(jn, tin, tout, vs, vt, eh, wc, sl, tod) ==
    [JunctionName |-> jn, travel_Direction_in |-> tin, travel_Direction_out |-> tout,
     VehicleSpeed |-> vs, VehicleType |-> vt, elctricHybrid |-> eh,
     Weather_Conditions |-> wc, JunctionSpeedLimit |-> sl, timeOfDay |-> tod]

\* the rows a file of the working directory is made of
RowSet == {
    Row(HANLEY, North, North, <<"3", "0">>, Truck, FalseText, Dry, <<"5", "0">>, <<"0", "8", ":", "1", "5">>),
    Row(HANLEY, North, South, <<"9", "0">>, Bicycle, TrueText, LightRain, <<"5", "0">>, <<"8", ":", "3", "0">>),
    Row(HANLEY, South, North, <<"5", "0">>, Motorcycle, FalseText, Dry, <<"5", "0">>, <<"2", "3", ":", "5", "9">>),
    Row(PaddedElm, South, North, <<"4", "0">>, Buss, FalseText, Dry, <<"5", "0">>, <<"0", "9", ":", "0", "0">>),
    Row(ELM, North, South, <<"2", "0">>, Scooter, TrueText, LightRain, <<"3", "0">>, <<"9", ":", "4", "5">>),
    Row(HANLEY, North, North, <<"x">>, Bicycle, TrueText, LightRain, <<"5", "0">>, <<"0", "8", ":", "0", "0">>),
    Row(ELM, South, North, <<"9", "0">>, Scooter, TrueText, LightRain, <<"4", "x">>, <<"0", "9", ":", "3", "0">>),
    Row(HANLEY, North, South, <<"3", "0">>, Truck, FalseText, Dry, NoneText, NoneText),
    Row(OtherJunction, North, North, <<"3", "0">>, Bicycle, FalseText, Dry, <<"5", "0">>, <<"2", "4", ":", "0", "0">>),
    Row(HANLEY, North, South, <<"3", "0">>, Car, FalseText, Dry, <<"5", "0">>, <<"x", "x", ":", "0", "0">>)
}

\* the headers a file may have: every column, or every column but timeOfDay
Headers == {Columns, Columns \ {"timeOfDay"}}

Restrict(row, header) == [c \in header |-> row[c]]

BoundedSeq(S, n) == UNION {[1..k -> S] : k \in 0..n}

\* csv.DictReader over a file: its rows, each with the header's columns
FileSet == {[present |-> TRUE, rows |-> [k \in DOMAIN rs |-> Restrict(rs[k], h)]] :
                rs \in BoundedSeq(RowSet, MaxRows), h \in Headers}

\* the rows of the files of a directory that holds two files: a Hanley truck, an Elm
\* scooter, and a row whose speed is not a number
SessionRowSet == {r \in RowSet : r.timeOfDay \in {<<"0", "8", ":", "1", "5">>,
                                                  <<"9", ":", "4", "5">>,
                                                  <<"0", "8", ":", "0", "0">>}}

SessionFileSet == {[present |-> TRUE, rows |-> rs] : rs \in BoundedSeq(SessionRowSet, MaxSessionRows)}

\* row.get(key, default)
Get(row, key, default) == IF key \in DOMAIN row THEN row[key] ELSE default

----------------------------------------------------------------------------
(* process_csv_data: the loop body *)

\* a str method called on a field: None has no strip / lower / split
StrExc(t) == IF t = NoneText THEN "AttributeError" ELSE "none"
\* int(field)
IntExc(t) == IF t = NoneText THEN "TypeError" ELSE IF IntOk(t) THEN "none" ELSE "ValueError"

\* the exceptions of the nine extraction statements, in statement order
FieldExcs(row) == <<
    StrExc(Get(row, "JunctionName", <<>>)),
    StrExc(Get(row, "travel_Direction_in", <<>>)),
    StrExc(Get(row, "travel_Direction_out", <<>>)),
    IntExc(Get(row, "VehicleSpeed", <<"0">>)),
    StrExc(Get(row, "VehicleType", <<>>)),
    StrExc(Get(row, "elctricHybrid", <<>>)),
    StrExc(Get(row, "Weather_Conditions", <<>>)),
    IntExc(Get(row, "JunctionSpeedLimit", <<"0">>)),
    StrExc(Get(row, "timeOfDay", DefaultTime)) >>

\* the exception the extraction raises: that of the first statement that fails
RowExc(row) == LET e == FieldExcs(row)
                   bad == {k \in DOMAIN e : e[k] # "none"}
               IN IF bad = {} THEN "none" ELSE e[CHOOSE k \in bad : \A m \in bad : k <= m]

\* except (ValueError, KeyError): continue
Caught(e) == e \in {"ValueError", "KeyError"}

RowOutcome(row) == IF RowExc(row) = "none" THEN "counted"
                   ELSE IF Caught(RowExc(row)) THEN "skipped"
                   ELSE "aborted"

\* the typed fields of a row whose extraction raised nothing
Event(row) == [
    junction_name |-> Strip(Get(row, "JunctionName", <<>>)),
    travel_in |-> Strip(Get(row, "travel_Direction_in", <<>>)),
    travel_out |-> Strip(Get(row, "travel_Direction_out", <<>>)),
    vehicle_speed |-> IntVal(Get(row, "VehicleSpeed", <<"0">>)),
    vehicle_type |-> Strip(Get(row, "VehicleType", <<>>)),
    is_electric |-> (Lower(Strip(Get(row, "elctricHybrid", <<>>))) = LowerTrue),
    weather_condition |-> Lower(Get(row, "Weather_Conditions", <<>>)),
    speed_limit |-> IntVal(Get(row, "JunctionSpeedLimit", <<"0">>)),
    hour |-> SplitFirst(Get(row, "timeOfDay", DefaultTime))]

InitTotals == [total_vehicles |-> 0, total_trucks |-> 0, total_bikes |-> 0,
               total_electric_vehicles |-> 0, total_no_turn |-> 0,
               total_speed_violations |-> 0, total_rain_hours |-> 0,
               total_elm_road |-> 0, total_hanley_road |-> 0, total_buses_north |-> 0,
               total_scooters_elm |-> 0, total_bicycle |-> 0]

\* the accumulators of one call, before the first row
InitAcc == [totals |-> InitTotals, hanley |-> <<>>, bicycle_hours |-> {}, rain_hours |-> {}]

\* totals[key] += 1 when cond
Bump(t, key, cond) == IF cond THEN [t EXCEPT ![key] = @ + 1] ELSE t

\* d[k] = d.get(k, 0) + 1 on a dict kept as a list of entries in insertion order
DictHas(d, k) == \E j \in DOMAIN d : d[j].hour = k
\* DictIncr that stores a new key with the default of get, 0, and adds 1 only to a key
\* the dict already holds
DictIncrFromZero(d, k) ==
    IF DictHas(d, k)
    THEN [j \in DOMAIN d |-> IF d[j].hour = k THEN [d[j] EXCEPT !.count = @ + 1] ELSE d[j]]
    ELSE Append(d, [hour |-> k, count |-> 0])

DictIncr(d, k) == IF DictHas(d, k)
                  THEN [j \in DOMAIN d |-> IF d[j].hour = k THEN [d[j] EXCEPT !.count = @ + 1] ELSE d[j]]
                  ELSE Append(d, [hour |-> k, count |-> 1])

\* the vehicle count and the vehicle type, electric and no-turn counters
CountTypes(t, ev) ==
    LET t1 == Bump(t, "total_vehicles", TRUE)
        t2 == Bump(t1, "total_trucks", ev.vehicle_type = Truck)
        t3 == Bump(t2, "total_bikes", ev.vehicle_type \in {Bicycle, Motorcycle, Scooter})
        t4 == Bump(t3, "total_electric_vehicles", ev.is_electric)
    IN Bump(t4, "total_no_turn", ev.travel_in = ev.travel_out)

\* if vehicle_speed > speed_limit
CountSpeed(t, ev) == Bump(t, "total_speed_violations", ev.vehicle_speed > ev.speed_limit)

AtElm(ev) == ev.junction_name = ELM
\* the elif: Hanley only when not Elm
AtHanley(ev) == ~AtElm(ev) /\ ev.junction_name = HANLEY

\* the junction counters
CountJunction(t, ev) ==
    LET t1 == Bump(t, "total_elm_road", AtElm(ev))
        t2 == Bump(t1, "total_buses_north", AtElm(ev) /\ ev.travel_out = North /\ ev.vehicle_type = Buss)
        t3 == Bump(t2, "total_scooters_elm", AtElm(ev) /\ ev.vehicle_type = Scooter)
    IN Bump(t3, "total_hanley_road", AtHanley(ev))

\* CountBicycle with the increment written twice
CountBicycleTwice(t, ev) ==
    Bump(Bump(t, "total_bicycle", ev.vehicle_type = Bicycle), "total_bicycle", ev.vehicle_type = Bicycle)

\* if vehicle_type == "Bicycle"
CountBicycle(t, ev) == Bump(t, "total_bicycle", ev.vehicle_type = Bicycle)

\* the updates of the loop body for one typed event
CountEvent(acc, ev) ==
    [totals |-> CountBicycle(CountJunction(CountSpeed(CountTypes(acc.totals, ev), ev), ev), ev),
     hanley |-> IF AtHanley(ev) THEN DictIncr(acc.hanley, ev.hour) ELSE acc.hanley,
     bicycle_hours |-> IF ev.vehicle_type = Bicycle THEN acc.bicycle_hours \cup {ev.hour}
                       ELSE acc.bicycle_hours,
     rain_hours |-> IF Contains(LowerRain, ev.weather_condition) THEN acc.rain_hours \cup {ev.hour}
                    ELSE acc.rain_hours]

\* LoopBody with total_vehicles counted before the casts, so that a skipped row counts
LoopBodyCountsFirst(acc, row) ==
    IF RowOutcome(row) = "counted" THEN CountEvent(acc, Event(row))
    ELSE IF RowOutcome(row) = "skipped" THEN [acc EXCEPT !.totals.total_vehicles = @ + 1]
    ELSE acc

\* one iteration of the loop: the accumulators after the row
LoopBody(acc, row) == IF RowOutcome(row) = "counted" THEN CountEvent(acc, Event(row)) ELSE acc

----------------------------------------------------------------------------
(* process_csv_data: after the loop *)

MaxOf(S, default) == IF S = {} THEN default ELSE CHOOSE m \in S : \A n \in S : n <= m

\* max(hanley_counts_per_hour.values(), default=0)
MaxCount(d) == MaxOf({d[j].count : j \in DOMAIN d}, 0)

IsPeak(d, e) == e.count = MaxCount(d)

\* PeakHours that keeps only the first hour that reaches the maximum
PeakHoursFirstOnly(d) == LET sel == SelectSeq(d, LAMBDA e : IsPeak(d, e))
                         IN IF sel = <<>> THEN <<>> ELSE <<sel[1].hour>>

\* [hour for hour, count in hanley_counts_per_hour.items() if count == max_count]
PeakHours(d) == LET sel == SelectSeq(d, LAMBDA e : IsPeak(d, e))
                IN [k \in DOMAIN sel |-> sel[k].hour]

\* NextHourText written with two digits, as f"{int(hour)+1:02d}" would
NextHourTextPadded(hour) == LET t == IntText(IntVal(hour) + 1)
                            IN IF Len(t) < 2 THEN <<"0">> \o t ELSE t

\* f"Between {hour}:00 and {int(hour)+1}:00"
NextHourText(hour) == IntText(IntVal(hour) + 1)
HourRange(hour) == BetweenText \o hour \o AndText \o NextHourText(hour) \o EndText

\* the exception the statements after the loop raise: the truck percentage
\* divides by total_vehicles, the ranges cast each peak hour key
FinalExc(acc) ==
    IF acc.totals.total_vehicles = 0 THEN "ZeroDivisionError"
    ELSE IF \E k \in DOMAIN PeakHours(acc.hanley) : ~IntOk(PeakHours(acc.hanley)[k]) THEN "ValueError"
    ELSE "none"

\* AvgBikesPerHour over total_bikes, the count of bicycles, motorcycles and scooters
AvgBikesPerHourAllBikes(acc) == IF acc.bicycle_hours # {}
                                THEN Round(acc.totals.total_bikes, Cardinality(acc.bicycle_hours))
                                ELSE 0

AvgBikesPerHour(acc) == IF acc.bicycle_hours # {}
                        THEN Round(acc.totals.total_bicycle, Cardinality(acc.bicycle_hours))
                        ELSE 0

PercentageScootersElm(acc) == IF acc.totals.total_elm_road > 0
                              THEN Round(100 * acc.totals.total_scooters_elm, acc.totals.total_elm_road)
                              ELSE 0

\* PercentageTrucks with the operands of the division swapped
PercentageTrucksInverted(acc) ==
    IF acc.totals.total_trucks = 0 THEN 0
    ELSE Round(100 * acc.totals.total_vehicles, acc.totals.total_trucks)

PercentageTrucks(acc) == Round(100 * acc.totals.total_trucks, acc.totals.total_vehicles)

\* the dictionary process_csv_data returns
Result(path, acc) == [
    file |-> path,
    totals |-> [acc.totals EXCEPT !.total_rain_hours = Cardinality(acc.rain_hours)],
    avg_bikes_per_hour |-> AvgBikesPerHour(acc),
    percentage_scooters_elm |-> PercentageScootersElm(acc),
    percentage_trucks |-> PercentageTrucks(acc),
    peak_hour_ranges |-> [k \in DOMAIN PeakHours(acc.hanley) |-> HourRange(PeakHours(acc.hanley)[k])],
    hanley_counts_per_hour |-> acc.hanley]

----------------------------------------------------------------------------
(* HistogramApp *)

canvas_height == 500

\* the two junctions of the chart, in the order the dictionaries hold them
Junctions == <<ELM, HANLEY>>

\* process_data: every hour 0..23 with a zero count for both junctions
InitHourly == [hour \in 0..23 |-> [j \in {Junctions[k] : k \in DOMAIN Junctions} |-> 0]]

\* the exception the body of process_data's loop raises for a row
ChartRowExc(hc, row) ==
    IF "timeOfDay" \notin DOMAIN row THEN "KeyError"
    ELSE IF row["timeOfDay"] = NoneText THEN "AttributeError"
    ELSE IF ~IntOk(SplitFirst(row["timeOfDay"])) THEN "ValueError"
    ELSE IF "JunctionName" \notin DOMAIN row THEN "KeyError"
    ELSE IF IntVal(SplitFirst(row["timeOfDay"])) \notin DOMAIN hc THEN "KeyError"
    ELSE "none"

\* the tally after a row that raised nothing
TallyRow(hc, row) ==
    LET hour == IntVal(SplitFirst(row["timeOfDay"]))
        junction == row["JunctionName"]
    IN IF junction \in DOMAIN hc[hour] THEN [hc EXCEPT ![hour][junction] = @ + 1] ELSE hc

\* except ValueError: continue
ChartCaught(e) == e = "ValueError"

\* process_data from row k on: the tally, and the exception that ended the loop
RECURSIVE Tally(_, _, _)
Tally(hc, rows, k) ==
    IF k > Len(rows) THEN [counts |-> hc, exc |-> "none"]
    ELSE LET e == ChartRowExc(hc, rows[k])
         IN IF e = "none" THEN Tally(TallyRow(hc, rows[k]), rows, k + 1)
            ELSE IF ChartCaught(e) THEN Tally(hc, rows, k + 1)
            ELSE [counts |-> hc, exc |-> e]

\* draw_histogram: max(max(counts.values()) for counts in self.hourly_counts.values())
ChartMax(hc) == MaxOf({hc[h][j] : h \in DOMAIN hc, j \in {Junctions[k] : k \in DOMAIN Junctions}}, 0)

\* the height available to the bars
BarSpace == canvas_height - 150

\* Scale that divides by max_count, leaving no headroom above the tallest bar
ScaleNoHeadroom(max_count) == IF max_count # 0 THEN [num |-> BarSpace, den |-> max_count]
                              ELSE [num |-> 0, den |-> 1]

\* scale, as a fraction: (canvas_height - 150) / (max_count + 1) if max_count else 0
Scale(max_count) == IF max_count # 0 THEN [num |-> BarSpace, den |-> max_count + 1]
                    ELSE [num |-> 0, den |-> 1]

\* the rectangles of draw_histogram, in draw order; height is count * scale
Bars(hc) == LET scale == Scale(ChartMax(hc))
                n == Len(Junctions)
            IN [b \in 1..(24 * n) |->
                   LET hour == (b - 1) \div n
                       junction == Junctions[((b - 1) % n) + 1]
                   IN [hour |-> hour, junction |-> junction, count |-> hc[hour][junction],
                       height |-> [num |-> hc[hour][junction] * scale.num, den |-> scale.den]]]

----------------------------------------------------------------------------
(* The report written to results.txt *)

FormatReport(report) == [
    file |-> report.file,
    totals |-> report.totals,
    percentage_trucks |-> report.percentage_trucks,
    avg_bikes_per_hour |-> report.avg_bikes_per_hour,
    percentage_scooters_elm |-> report.percentage_scooters_elm,
    highest_hanley_hour |-> MaxCount(report.hanley_counts_per_hour),
    busiest_hours |-> report.peak_hour_ranges]

----------------------------------------------------------------------------
(* The session *)

FileName == "traffic_data01012024.csv"
OtherFileName == "traffic_data02012024.csv"

NoneData == [is_none |-> TRUE, rows |-> <<>>]
Data(rows) == [is_none |-> FALSE, rows |-> rows]
NoExc == [type |-> "none", cause |-> "none"]

Acc == [totals |-> totals, hanley |-> hanley_counts_per_hour,
        bicycle_hours |-> bicycle_hours, rain_hours |-> rain_hours]

\* the names bound by the loop iteration and by the statements after the loop, outside
\* a call; the accumulators are left as the call left them: only the assignments at
\* the head of process_csv_data give them their starting values
NoLocals == /\ i' = 0
            /\ last_row' = "none"
            /\ peak_hours' = <<>>
            /\ analysis_report' = <<>>
            /\ hourly_counts' = <<>>
            /\ bars' = <<>>

\* no call has returned yet
NothingReturned(d) == [f \in DOMAIN d |-> [result |-> <<>>, between |-> FALSE]]

\* the program after MultiCSVProcessor() and before the first prompt
Start == /\ pc = "select"
         /\ file_path = ""
         /\ current_data = NoneData
         /\ i = 0
         /\ totals = InitTotals
         /\ hanley_counts_per_hour = <<>>
         /\ bicycle_hours = {}
         /\ rain_hours = {}
         /\ last_row = "none"
         /\ exc = NoExc
         /\ peak_hours = <<>>
         /\ analysis_report = <<>>
         /\ results_txt = <<>>
         /\ hourly_counts = <<>>
         /\ bars = <<>>
         /\ console = ""
         /\ answer = ""
         /\ returned = NothingReturned(dir)

\* one survey file in the working directory
Init == dir \in [{FileName} -> FileSet] /\ Start

\* two survey files in the working directory
InitSession == dir \in [{FileName, OtherFileName} -> SessionFileSet] /\ Start

\* validate_date_input returns the path of a file it found in the directory
ValidateDateInput ==
    /\ pc = "select"
    /\ \E f \in DOMAIN dir : dir[f].present /\ file_path' = f
    /\ console' = "Please enter the year of the survey in the format YYYY (2000-2024): "
    /\ answer' = ""
    /\ pc' = "load"
    /\ UNCHANGED <<returned, dir, current_data, i, totals, hanley_counts_per_hour, bicycle_hours,
                   rain_hours, last_row, exc, peak_hours, analysis_report, results_txt,
                   hourly_counts, bars>>

\* validate_date_input returns None: the loop reports it and asks again
ValidateDateInputNone ==
    /\ pc = "select"
    /\ console' = "File selection canceled or an error occurred during date/file input. Trying Again"
    /\ UNCHANGED <<returned, dir, pc, file_path, current_data, i, totals, hanley_counts_per_hour,
                   bicycle_hours, rain_hours, last_row, exc, peak_hours, analysis_report,
                   results_txt, hourly_counts, bars, answer>>

\* the selected file is removed by something else, before it is opened
RemoveFile ==
    /\ pc \in {"load", "aggregate"}
    /\ dir[file_path].present
    /\ dir' = [dir EXCEPT ![file_path].present = FALSE]
    /\ UNCHANGED <<pc, file_path, current_data, i, totals, hanley_counts_per_hour,
                   bicycle_hours, rain_hours, last_row, exc, peak_hours, analysis_report,
                   results_txt, hourly_counts, bars, console, answer, returned>>

\* self.current_data = self.load_csv_file(file_path)
LoadCsvFile ==
    /\ pc = "load"
    /\ IF dir[file_path].present
       THEN /\ current_data' = Data(dir[file_path].rows)
            /\ console' = IF dir[file_path].rows = <<>> THEN "No data found" ELSE console
       ELSE /\ current_data' = Data(<<>>)
            /\ console' = "Error loading file"
    /\ pc' = "aggregate"
    /\ UNCHANGED <<returned, dir, file_path, i, totals, hanley_counts_per_hour, bicycle_hours,
                   rain_hours, last_row, exc, peak_hours, analysis_report, results_txt,
                   hourly_counts, bars, answer>>

\* history: a call on file f has started, every other file has now been followed by f
CallStarted(r, f) == [g \in DOMAIN r |-> IF g # f /\ r[g].result # <<>>
                                         THEN [r[g] EXCEPT !.between = TRUE] ELSE r[g]]

\* ProcessCsvDataStart without the assignments that create the accumulators: they keep
\* what the previous call left in them
ProcessCsvDataStartNoInit ==
    /\ pc = "aggregate"
    /\ IF dir[file_path].present
       THEN pc' = "rows" /\ exc' = exc
       ELSE pc' = "raised" /\ exc' = [type |-> "FileNotFoundError", cause |-> "none"]
    /\ i' = 0
    /\ returned' = CallStarted(returned, file_path)
    /\ UNCHANGED <<dir, file_path, current_data, totals, hanley_counts_per_hour, bicycle_hours,
                   rain_hours, last_row, peak_hours, analysis_report,
                   results_txt, hourly_counts, bars, console, answer>>

\* process_csv_data up to the loop: the existence check, which raises before anything
\* is created, then the fresh accumulators
ProcessCsvDataStart ==
    /\ pc = "aggregate"
    /\ IF dir[file_path].present
       THEN /\ pc' = "rows"
            /\ exc' = exc
            /\ totals' = InitAcc.totals
            /\ hanley_counts_per_hour' = InitAcc.hanley
            /\ bicycle_hours' = InitAcc.bicycle_hours
            /\ rain_hours' = InitAcc.rain_hours
       ELSE /\ pc' = "raised"
            /\ exc' = [type |-> "FileNotFoundError", cause |-> "none"]
            /\ UNCHANGED <<totals, hanley_counts_per_hour, bicycle_hours, rain_hours>>
    /\ i' = 0
    /\ returned' = CallStarted(returned, file_path)
    /\ UNCHANGED <<dir, file_path, current_data, last_row, peak_hours, analysis_report,
                   results_txt, hourly_counts, bars, console, answer>>

\* one iteration of the loop over the reader
ProcessRow ==
    /\ pc = "rows"
    /\ i < Len(dir[file_path].rows)
    /\ LET row == dir[file_path].rows[i + 1]
           after == LoopBody(Acc, row)
       IN /\ i' = i + 1
          /\ last_row' = RowOutcome(row)
          /\ totals' = after.totals
          /\ hanley_counts_per_hour' = after.hanley
          /\ bicycle_hours' = after.bicycle_hours
          /\ rain_hours' = after.rain_hours
          /\ IF RowOutcome(row) = "aborted"
             THEN pc' = "raised" /\ exc' = [type |-> "RuntimeError", cause |-> RowExc(row)]
             ELSE pc' = pc /\ exc' = exc
    /\ UNCHANGED <<returned, dir, file_path, current_data, peak_hours, analysis_report, results_txt,
                   hourly_counts, bars, console, answer>>

\* the statements after the loop: rain hours, averages, percentages, peak hours
Finalize ==
    /\ pc = "rows"
    /\ i = Len(dir[file_path].rows)
    /\ totals' = [totals EXCEPT !.total_rain_hours = Cardinality(rain_hours)]
    /\ last_row' = "none"
    /\ IF FinalExc(Acc) = "none"
       THEN /\ peak_hours' = PeakHours(hanley_counts_per_hour)
            /\ analysis_report' = <<Result(file_path, Acc)>>
            /\ pc' = "report"
            /\ exc' = exc
       ELSE /\ peak_hours' = IF FinalExc(Acc) = "ValueError" THEN PeakHours(hanley_counts_per_hour)
                             ELSE peak_hours
            /\ analysis_report' = analysis_report
            /\ pc' = "raised"
            /\ exc' = [type |-> "RuntimeError", cause |-> FinalExc(Acc)]
    /\ UNCHANGED <<returned, dir, file_path, current_data, i, hanley_counts_per_hour, bicycle_hours,
                   rain_hours, results_txt, hourly_counts, bars, console, answer>>

\* HandlerCatches without the except RuntimeError clause
HandlerCatchesNotFoundOnly(e) == e.type = "FileNotFoundError"

\* except FileNotFoundError / except RuntimeError: print the error, continue
HandlerCatches(e) == e.type \in {"FileNotFoundError", "RuntimeError"}

HandleError ==
    /\ pc = "raised"
    /\ IF HandlerCatches(exc)
       THEN /\ pc' = "select"
            /\ console' = IF exc.type = "FileNotFoundError" THEN "Error: file does not exist"
                          ELSE "Error during processing"
            /\ exc' = NoExc
       ELSE /\ pc' = "crashed"
            /\ console' = "Traceback"
            /\ exc' = exc
    /\ NoLocals
    /\ UNCHANGED <<dir, file_path, current_data, totals, hanley_counts_per_hour, bicycle_hours,
                   rain_hours, results_txt, answer, returned>>

\* open('results.txt', 'a'): the content of the file is kept
OpenForAppending(content) == content

\* open('results.txt', 'w'): the file is truncated
OpenForWriting(content) == <<>>

\* history: the report of file f has been written from the dictionary result
Reported(r, f, result) == [r EXCEPT ![f] = [result |-> result, between |-> FALSE]]

\* the with block: results.txt is opened, the formatted lines are written, the file closed
WriteReport ==
    /\ pc = "report"
    /\ results_txt' = Append(OpenForWriting(results_txt), FormatReport(analysis_report[1]))
    /\ returned' = Reported(returned, file_path, analysis_report)
    /\ console' = "Analysis Report saved to results.txt"
    /\ pc' = "chart"
    /\ UNCHANGED <<dir, file_path, current_data, i, totals, hanley_counts_per_hour,
                   bicycle_hours, rain_hours, last_row, exc, peak_hours, analysis_report,
                   hourly_counts, bars, answer>>

\* HistogramApp(self.current_data, date_input) and app.run()
ShowHistogram ==
    /\ pc = "chart"
    /\ LET t == Tally(InitHourly, current_data.rows, 1)
       IN /\ hourly_counts' = <<t.counts>>
          /\ IF t.exc = "none"
             THEN /\ bars' = Bars(t.counts)
                  /\ pc' = "prompt"
                  /\ exc' = exc
                  /\ console' = console
             ELSE /\ bars' = bars
                  /\ pc' = "crashed"
                  /\ exc' = [type |-> t.exc, cause |-> "none"]
                  /\ console' = "Traceback"
    /\ UNCHANGED <<returned, dir, file_path, current_data, i, totals, hanley_counts_per_hour,
                   bicycle_hours, rain_hours, last_row, peak_hours, analysis_report,
                   results_txt, answer>>

\* the "different date" prompt
AnswerNo ==
    /\ pc = "prompt"
    /\ answer' = "n"
    /\ console' = "Exiting program."
    /\ pc' = "exited"
    /\ UNCHANGED <<returned, dir, file_path, current_data, i, totals, hanley_counts_per_hour,
                   bicycle_hours, rain_hours, last_row, exc, peak_hours, analysis_report,
                   results_txt, hourly_counts, bars>>

AnswerYes ==
    /\ pc = "prompt"
    /\ answer' = "y"
    /\ current_data' = NoneData
    /\ console' = "Loading another file..."
    /\ pc' = "select"
    /\ NoLocals
    /\ UNCHANGED <<dir, file_path, totals, hanley_counts_per_hour, bicycle_hours, rain_hours,
                   exc, results_txt, returned>>

AnswerInvalid ==
    /\ pc = "prompt"
    /\ answer' = "?"
    /\ console' = "Invalid input. Please enter 'Y' or 'N'."
    /\ UNCHANGED <<returned, dir, pc, file_path, current_data, i, totals, hanley_counts_per_hour,
                   bicycle_hours, rain_hours, last_row, exc, peak_hours, analysis_report,
                   results_txt, hourly_counts, bars>>

Next == \/ ValidateDateInput
        \/ ValidateDateInputNone
        \/ RemoveFile
        \/ LoadCsvFile
        \/ ProcessCsvDataStart
        \/ ProcessRow
        \/ Finalize
        \/ HandleError
        \/ WriteReport
        \/ ShowHistogram
        \/ AnswerNo
        \/ AnswerYes
        \/ AnswerInvalid

Spec == Init /\ [][Next]_vars

\* a session over a directory of two files
SpecSession == InitSession /\ [][Next]_vars

----------------------------------------------------------------------------
(* Properties *)

\* the rows of the file being processed
FileRows == dir[file_path].rows
\* the rows the reader has yielded so far
ReadRows == SubSeq(FileRows, 1, i)

\* a row with every field present, numeric speeds and a numeric leading time segment
WellFormed(row) ==
    /\ \A c \in DOMAIN row : row[c] # NoneText
    /\ IntOk(Get(row, "VehicleSpeed", <<"0">>))
    /\ IntOk(Get(row, "JunctionSpeedLimit", <<"0">>))
    /\ IntOk(SplitFirst(Get(row, "timeOfDay", DefaultTime)))

\* a row the loop skips because a speed field holds non-numeric text
SpeedSkipped(row) == RowExc(row) = "ValueError"

RECURSIVE AggregateRows(_, _)
AggregateRows(acc, rows) ==
    IF rows = <<>> THEN acc ELSE AggregateRows(LoopBody(acc, Head(rows)), Tail(rows))

\* C1: a malformed row (non-numeric speed or limit, a missing field, a non-numeric
\* leading time segment) is dropped and the pass goes on, so the aggregation of a
\* file that holds a well-formed row never fails with a processing error.
C1_MalformedRowNeverFailsTheFile ==
    (pc = "raised" /\ exc.type = "RuntimeError")
        => ~\E k \in DOMAIN FileRows : WellFormed(FileRows[k])

\* the exception that ends a pass over rows, "none" when the pass returns
RECURSIVE PassExc(_, _)
PassExc(acc, rows) ==
    IF rows = <<>> THEN FinalExc(acc)
    ELSE IF RowOutcome(Head(rows)) = "aborted" THEN RowExc(Head(rows))
    ELSE PassExc(LoopBody(acc, Head(rows)), Tail(rows))

\* C2: a row skipped for a non-numeric VehicleSpeed or JunctionSpeedLimit leaves no
\* trace: after every prefix the accumulators are those of the pass over the prefix
\* without such rows, total_vehicles is the number of rows that parsed, and the
\* pass ends as the pass over the file without such rows does: with the same
\* returned result, or with the same error.
C2_SkippedRowLeavesNoTrace ==
    /\ pc = "rows" =>
          /\ Acc = AggregateRows(InitAcc, SelectSeq(ReadRows, LAMBDA r : ~SpeedSkipped(r)))
          /\ totals.total_vehicles = Len(SelectSeq(ReadRows, LAMBDA r : RowOutcome(r) = "counted"))
    /\ pc = "report" =>
          analysis_report[1] =
              Result(file_path, AggregateRows(InitAcc, SelectSeq(FileRows, LAMBDA r : ~SpeedSkipped(r))))
    /\ (pc = "raised" /\ exc.type = "RuntimeError") =>
          exc.cause = PassExc(InitAcc, SelectSeq(FileRows, LAMBDA r : ~SpeedSkipped(r)))

C2_Witness ==
    /\ pc = "report"
    /\ \E k \in DOMAIN FileRows : ~IntOk(FileRows[k]["VehicleSpeed"])
    /\ \E k \in DOMAIN FileRows : ~IntOk(FileRows[k]["JunctionSpeedLimit"])
    /\ totals.total_vehicles = 1

\* C3: a returned result has at least one validated row and a truck percentage in
\* 0..100; a pass that validated no row fails with a processing error (the division
\* of the truck percentage) and returns nothing; the bicycle average and the Elm
\* scooter percentage are 0 on a zero denominator and raise nothing.
C3_TruckPercentage ==
    /\ pc = "report" =>
          /\ totals.total_vehicles >= 1
          /\ analysis_report[1].percentage_trucks \in 0..100
          /\ (bicycle_hours = {} => analysis_report[1].avg_bikes_per_hour = 0)
          /\ (totals.total_elm_road = 0 => analysis_report[1].percentage_scooters_elm = 0)
    /\ (pc = "raised" /\ exc.cause = "ZeroDivisionError") =>
          (exc.type = "RuntimeError" /\ totals.total_vehicles = 0)
    /\ (pc = "raised" /\ exc.type = "RuntimeError" /\ last_row # "aborted"
           /\ totals.total_vehicles = 0) => exc.cause = "ZeroDivisionError"

C3_Witness ==
    /\ pc = "report"
    /\ analysis_report[1].percentage_trucks \in 1..99
    /\ bicycle_hours = {}
    /\ totals.total_elm_road = 0

\* C4: an exception out of process_csv_data (no validated vehicle, or the path is
\* gone) is reported and the loop goes back to date/file selection; the session
\* never ends on it, and handle_user_interaction returns only on the answer 'n'.
C4_AggregationFailureReturnsToSelection ==
    [][/\ pc = "raised" =>
            /\ pc' = "select"
            /\ console' = (IF exc.type = "FileNotFoundError" THEN "Error: file does not exist"
                           ELSE "Error during processing")
       /\ pc' = "exited" => (pc = "prompt" /\ answer' = "n")
       /\ pc' = "crashed" => pc = "chart"]_vars

C4_Witness ==
    /\ pc = "select"
    /\ console = "Error during processing"
    /\ dir[file_path].present
    /\ FileRows # <<>>
    /\ \A k \in DOMAIN FileRows : RowOutcome(FileRows[k]) = "skipped"

\* the hour keys of a Hanley counter
TextSet(q) == {q[k] : k \in DOMAIN q}

\* C5: the peak hours are exactly the hour keys whose Hanley count is the maximum
\* per-hour count, each once: every tied hour is in, no hour with a smaller count
\* is; without Hanley events the maximum is 0 and there is no peak hour.
C5_PeakHoursAreAllTiedMaxima ==
    pc = "report" =>
        LET d == hanley_counts_per_hour
            m == FormatReport(analysis_report[1]).highest_hanley_hour
        IN /\ \A j \in DOMAIN d : d[j].count <= m
           /\ IF d = <<>> THEN m = 0 /\ peak_hours = <<>>
              ELSE \E j \in DOMAIN d : d[j].count = m
           /\ TextSet(peak_hours) = {d[j].hour : j \in {n \in DOMAIN d : d[n].count = m}}
           /\ Cardinality(TextSet(peak_hours)) = Len(peak_hours)

C5_Witness ==
    /\ pc = "report"
    /\ Len(hanley_counts_per_hour) = 2
    /\ Len(peak_hours) = 2
    /\ totals.total_hanley_road = 2

\* C5, the other case: an hour with a smaller count is left out
C5_WitnessSmaller ==
    /\ pc = "report"
    /\ Len(hanley_counts_per_hour) = 2
    /\ Len(peak_hours) = 1

\* the row at which a Hanley hour key was first counted
FirstSeen(h) ==
    CHOOSE k \in DOMAIN FileRows :
        /\ RowOutcome(FileRows[k]) = "counted"
        /\ AtHanley(Event(FileRows[k])) /\ Event(FileRows[k]).hour = h
        /\ \A n \in 1..(k - 1) :
              ~(RowOutcome(FileRows[n]) = "counted"
                /\ AtHanley(Event(FileRows[n])) /\ Event(FileRows[n]).hour = h)

Range08 == <<"B", "e", "t", "w", "e", "e", "n", " ", "0", "8", ":", "0", "0", " ", "a", "n", "d", " ", "9", ":", "0", "0">>
Range23 == <<"B", "e", "t", "w", "e", "e", "n", " ", "2", "3", ":", "0", "0", " ", "a", "n", "d", " ", "2", "4", ":", "0", "0">>

\* C6: there is one range per peak hour, in the order the peak hours were first
\* seen; the range of key HH is "Between HH:00 and N:00" with HH verbatim and N the
\* decimal text of int(HH) + 1, neither padded nor wrapped ("08" gives 9, "23" gives 24).
C6_PeakHourRanges ==
    pc = "report" =>
        LET ranges == analysis_report[1].peak_hour_ranges
        IN /\ Len(ranges) = Len(peak_hours)
           /\ \A k \in DOMAIN peak_hours :
                 LET h == peak_hours[k]
                     r == ranges[k]
                     pre == BetweenText \o h \o AndText
                     n == SubSeq(r, Len(pre) + 1, Len(r) - Len(EndText))
                 IN /\ SubSeq(r, 1, Len(pre)) = pre
                    /\ SubSeq(r, Len(r) - Len(EndText) + 1, Len(r)) = EndText
                    /\ n # <<>> /\ \A c \in DOMAIN n : IsDigit(n[c])
                    /\ DigitsValue(n) = IntVal(h) + 1
                    /\ n[1] # "0"
                    /\ (h = <<"0", "8">> => r = Range08)
                    /\ (h = <<"2", "3">> => r = Range23)
           /\ \A k, l \in DOMAIN peak_hours :
                 k < l => FirstSeen(peak_hours[k]) < FirstSeen(peak_hours[l])

C6_Witness ==
    /\ pc = "report"
    /\ peak_hours = << <<"2", "3">>, <<"0", "8">> >>
    /\ analysis_report[1].peak_hour_ranges = <<Range23, Range08>>

\* C7: after every prefix of the rows and in the returned result, every running
\* total and the number of distinct rain hours is at least 0 and at most total_vehicles.
C7_TotalsBoundedByVehicles ==
    /\ \A key \in DOMAIN totals : totals[key] >= 0 /\ totals[key] <= totals.total_vehicles
    /\ Cardinality(rain_hours) <= totals.total_vehicles
    /\ analysis_report # <<>> =>
          \A key \in DOMAIN analysis_report[1].totals :
              /\ analysis_report[1].totals[key] >= 0
              /\ analysis_report[1].totals[key] <= analysis_report[1].totals.total_vehicles

C7_Witness ==
    /\ pc = "rows"
    /\ i < Len(FileRows)
    /\ totals.total_vehicles = 2
    /\ totals.total_bicycle = 1
    /\ Cardinality(rain_hours) = 2

\* a file whose rows are all well formed, with an hour 0..23 of one or two digits
ValidHours(rows) ==
    \A k \in DOMAIN rows :
        /\ "timeOfDay" \in DOMAIN rows[k]
        /\ WellFormed(rows[k])
        /\ LET h == SplitFirst(rows[k]["timeOfDay"])
           IN Len(h) \in {1, 2} /\ (\A c \in DOMAIN h : IsDigit(h[c])) /\ DigitsValue(h) \in 0..23

\* the largest Hanley cell of a chart tally
ChartHanleyMax(hc) == MaxOf({hc[h][HANLEY] : h \in DOMAIN hc}, 0)

\* C8: for a file of valid rows with hours 0..23 of one or two digits, the count the
\* aggregator holds under an hour key is the chart's Hanley count of that hour, the
\* report's highest single-hour count is the chart's largest Hanley cell, and the
\* peak hours are the hours of the chart's tallest Hanley bars.
C8_ReportAndChartAgreeOnHours ==
    (pc = "prompt" /\ ValidHours(FileRows)) =>
        LET hc == hourly_counts[1]
            d == analysis_report[1].hanley_counts_per_hour
        IN /\ \A j \in DOMAIN d : d[j].count = hc[IntVal(d[j].hour)][HANLEY]
           /\ results_txt[1].highest_hanley_hour = ChartHanleyMax(hc)
           /\ {IntVal(peak_hours[k]) : k \in DOMAIN peak_hours} =
                 {h \in DOMAIN hc : hc[h][HANLEY] > 0 /\ hc[h][HANLEY] = ChartHanleyMax(hc)}

\* C9: the chart of a file that was aggregated successfully is always built: the
\* session never ends on an exception out of HistogramApp.
C9_ChartNeverFails == pc # "crashed"

\* C10: the chart tally always has the 24 hours 0..23, each with a count for both
\* junctions; a drawn chart has 48 bars, Elm then Hanley for each hour, a zero cell
\* is a bar of height 0, all bars have height 0 when every cell is 0, and otherwise
\* a bar's height is count * H / (maxCount + 1), below the available height H.
C10_ChartTallyAndBars ==
    hourly_counts # <<>> =>
        LET hc == hourly_counts[1]
            cells == {hc[h][j] : h \in 0..23, j \in {ELM, HANLEY}}
            H == canvas_height - 150
        IN /\ DOMAIN hc = 0..23
           /\ \A h \in 0..23 : DOMAIN hc[h] = {ELM, HANLEY} /\ \A j \in {ELM, HANLEY} : hc[h][j] >= 0
           /\ pc = "prompt" =>
                 /\ Len(bars) = 48
                 /\ \A h \in 0..23 :
                       /\ bars[2 * h + 1].hour = h /\ bars[2 * h + 1].junction = ELM
                       /\ bars[2 * h + 1].count = hc[h][ELM]
                       /\ bars[2 * h + 2].hour = h /\ bars[2 * h + 2].junction = HANLEY
                       /\ bars[2 * h + 2].count = hc[h][HANLEY]
                 /\ \A b \in DOMAIN bars :
                       /\ bars[b].height.den > 0
                       /\ bars[b].count = 0 => bars[b].height.num = 0
                       /\ cells = {0} => bars[b].height.num = 0
                       /\ cells # {0} =>
                             \E m \in cells :
                                 /\ \A c \in cells : c <= m
                                 /\ bars[b].height.num * (m + 1) = bars[b].count * H * bars[b].height.den
                                 /\ bars[b].height.num < H * bars[b].height.den

C10_Witness ==
    /\ pc = "prompt"
    /\ \E b \in DOMAIN bars : bars[b].count = 2 /\ bars[b].height.num > 0
    /\ \E b \in DOMAIN bars : bars[b].count = 1 /\ bars[b].height.num > 0
    /\ \E b \in DOMAIN bars : bars[b].count = 0

\* C11: a call on a file the session has already reported returns the very dictionary
\* the earlier call returned (totals, derived metrics, peak hour ranges, per-hour
\* Hanley counts), whatever was processed in between; every call starts its loop on
\* the zero totals and the empty dict and sets.
C11_SameRowsSameResult ==
    /\ (pc = "rows" /\ i = 0) => Acc = InitAcc
    /\ (pc = "report" /\ returned[file_path].result # <<>>)
          => analysis_report = returned[file_path].result

\* a file is reported a second time after another file, with other totals, was reported
C11_Witness ==
    /\ pc = "report"
    /\ returned[file_path].result # <<>>
    /\ returned[file_path].between
    /\ \E g \in DOMAIN dir \ {file_path} :
          /\ returned[g].result # <<>>
          /\ returned[g].result[1].totals # analysis_report[1].totals
          /\ returned[g].result[1].hanley_counts_per_hour # analysis_report[1].hanley_counts_per_hour

\* the validated rows whose vehicle type is Bicycle, and the hour keys they carry
BicycleRows(rows) == {k \in DOMAIN rows : RowOutcome(rows[k]) = "counted"
                                          /\ Event(rows[k]).vehicle_type = Bicycle}
BicycleHourKeys(rows) == {Event(rows[k]).hour : k \in BicycleRows(rows)}

\* C12: the returned avg_bikes_per_hour is 0 when no validated row is a Bicycle,
\* whatever the other rows are; otherwise it is an integer nearest to the number of
\* Bicycle rows divided by the number of distinct hour keys they carry, at least 1
\* and at most the number of Bicycle rows.
C12_AvgBikesPerHour ==
    pc = "report" =>
        LET b == Cardinality(BicycleRows(FileRows))
            h == Cardinality(BicycleHourKeys(FileRows))
            a == analysis_report[1].avg_bikes_per_hour
        IN /\ b = analysis_report[1].totals.total_bicycle
           /\ b = 0 => a = 0
           /\ b > 0 => /\ h > 0
                       /\ 2 * a * h - 2 * b \in (0 - h)..h
                       /\ a >= 1
                       /\ a <= b

\* three bicycles over two hour keys: 1.5 is returned as 2
C12_Witness ==
    /\ pc = "report"
    /\ Cardinality(BicycleRows(FileRows)) = 3
    /\ Cardinality(BicycleHourKeys(FileRows)) = 2
    /\ analysis_report[1].avg_bikes_per_hour = 2

\* a motorcycle and a scooter but no bicycle: 0 is returned
C12_WitnessNoBicycle ==
    /\ pc = "report"
    /\ BicycleRows(FileRows) = {}
    /\ analysis_report[1].totals.total_bikes >= 2
    /\ analysis_report[1].avg_bikes_per_hour = 0

\* the sum of the values of a dict
RECURSIVE SumCounts(_)
SumCounts(d) == IF d = <<>> THEN 0 ELSE Head(d).count + SumCounts(Tail(d))

\* C13: after every prefix of the rows, and in the returned result, every entry of
\* hanley_counts_per_hour is at least 1, the entries sum to total_hanley_road, the Elm
\* and Hanley totals together do not exceed total_vehicles, and the northbound buses
\* and the scooters at Elm together do not exceed total_elm_road.
C13_JunctionCounters ==
    pc \in {"rows", "report"} =>
        /\ \A j \in DOMAIN hanley_counts_per_hour : hanley_counts_per_hour[j].count >= 1
        /\ SumCounts(hanley_counts_per_hour) = totals.total_hanley_road
        /\ totals.total_elm_road + totals.total_hanley_road <= totals.total_vehicles
        /\ totals.total_buses_north + totals.total_scooters_elm <= totals.total_elm_road

\* after three rows: two Hanley events in two hours, a scooter at Elm
C13_Witness ==
    /\ pc = "rows"
    /\ i = 3
    /\ Len(hanley_counts_per_hour) = 2
    /\ totals.total_hanley_road = 2
    /\ totals.total_scooters_elm = 1
    /\ totals.total_elm_road = 1

\* C14: within one iteration, results.txt is written only by the step that follows a
\* successful return of process_csv_data for the selected file, and what it then
\* holds is that file's report alone, nothing of the previous content; the chart is
\* tallied and drawn only after results.txt holds the report of the same file; the
\* handling of a failed aggregation leaves results.txt as it was and shows no chart.
C14_ReportBeforeChart ==
    [][/\ (pc' = "chart" \/ results_txt' # results_txt)
            => /\ pc = "report"
               /\ analysis_report # <<>>
               /\ analysis_report[1].file = file_path
               /\ results_txt' = <<FormatReport(analysis_report[1])>>
       /\ ((hourly_counts' # hourly_counts /\ hourly_counts' # <<>>) \/ pc' = "prompt")
            => /\ pc \in {"chart", "prompt"}
               /\ analysis_report # <<>>
               /\ analysis_report[1].file = file_path
               /\ results_txt = <<FormatReport(analysis_report[1])>>
       /\ (pc \in {"aggregate", "rows"} /\ pc' = "raised")
            => /\ results_txt' = results_txt
               /\ hourly_counts' = <<>>
       /\ pc = "raised"
            => /\ results_txt' = results_txt
               /\ hourly_counts' = <<>>
               /\ bars' = <<>>
               /\ pc' \in {"select", "crashed"}
      ]_vars

\* the chart of a file is on screen, results.txt holds that file's report and no
\* longer the different report of the file reported before it
C14_Witness ==
    /\ pc = "prompt"
    /\ bars # <<>>
    /\ results_txt = <<FormatReport(analysis_report[1])>>
    /\ \E g \in DOMAIN dir \ {file_path} :
          /\ returned[g].result # <<>>
          /\ FormatReport(returned[g].result[1]).totals # results_txt[1].totals

\* the aggregation of a file has failed and been reported to the user, results.txt
\* still holds the report of the other file
C14_WitnessFailedAttempt ==
    /\ pc = "select"
    /\ console = "Error during processing"
    /\ results_txt # <<>>
    /\ results_txt[1].file # file_path
    /\ results_txt = <<FormatReport(returned[results_txt[1].file].result[1])>>
    /\ hourly_counts = <<>>

====
